---------------------------- MODULE Spec2Model ----------------------------
(***************************************************************************)
(* A model of py-hprof: the lazy record index of HprofFile                 *)
(* (hprof/_binary.py), the top-level record iterator, the heap object      *)
(* model (hprof/heap.py: Ref, cast, field lookup) and the instance-dump    *)
(* subrecord layout (hprof/heaprecord/objectrecord.py).                    *)
(*                                                                         *)
(* Four specifications share the module:                                   *)
(*   Spec        the index builder: name(), get_class_info(), dumps()      *)
(*   SpecRecords the records() generator over the bytes of a file          *)
(*   SpecHeap    cast() and attribute lookup on the heap object model      *)
(*   SpecObject  instance-dump subrecords inside one heap dump segment     *)
(* Each one leaves the variables of the others at their idle value.        *)
(***************************************************************************)
EXTENDS Integers, Sequences, FiniteSets, TLC

VARIABLES
    \* ---- HprofFile index (Spec) ----
    file,           \* the top-level records of the opened file, in file order
    caches_built,   \* HprofFile._caches_built
    names,          \* HprofFile._names: name id -> record
    class_info,     \* HprofFile._class_info: class id or class name -> record
    dumps,          \* HprofFile._dumps: None or the tuple of dumps
    last,           \* the last public call and what it returned or raised
    \* ---- records() generator (SpecRecords) ----
    data,           \* HprofFile._data: the bytes of the file
    addr,           \* the generator's local addr
    yielded,        \* the records yielded so far: <<[addr, len, tag]>>
    rstate,         \* "running", "done" (clean end) or "EofError"
    \* ---- heap object model (SpecHeap) ----
    schema,         \* per class: _hprof_ifields and _hprof_sfields
    cur,            \* the value in hand: an object, a class object or a Ref
    nrefs,          \* number of Ref objects allocated so far
    res,            \* the last cast or attribute lookup and its outcome
    \* ---- instance dumps in a segment (SpecObject) ----
    idsize,         \* HprofFile.idsize
    seg,            \* the bytes of a heap dump segment body
    written,        \* what was written into seg: <<[addr, id, d]>>
    saddr,          \* address of the next subrecord to frame
    subs,           \* the subrecords framed so far: <<[addr, len, id, d]>>
    \* ---- close() and the readers (SpecClose) ----
    hdata,          \* HprofFile._data: None or the bytes of the file
    hfile,          \* HprofFile._f: None or the open file object
    hdumps,         \* HprofFile._dumps of this file
    rgen,           \* a records() generator: its state and its local addr
    dgen,           \* a dumps() generator: its state and its position
    cres,           \* the last call on the file or its generators
    \* ---- ids written and read back (SpecId) ----
    widsize,        \* Builder.idsize and HprofFile.idsize
    wid,            \* the id given to Builder.id, a Python int
    wbuf,           \* the Builder: the bytes written so far
    waddr,          \* the address the id was written at
    rid             \* what read_id returned: [done, v]

indexVars  == <<file, caches_built, names, class_info, dumps, last>>
recordVars == <<data, addr, yielded, rstate>>
heapVars   == <<schema, cur, nrefs, res>>
objectVars == <<idsize, seg, written, saddr, subs>>
closeVars  == <<hdata, hfile, hdumps, rgen, dgen, cres>>
idVars     == <<widsize, wid, wbuf, waddr, rid>>
vars == <<file, caches_built, names, class_info, dumps, last,
          data, addr, yielded, rstate, schema, cur, nrefs, res,
          idsize, seg, written, saddr, subs,
          hdata, hfile, hdumps, rgen, dgen, cres,
          widsize, wid, wbuf, waddr, rid>>

-----------------------------------------------------------------------------
(* Bounds of the model.                                                    *)

\* most top-level records in a file of the index specification
MaxRecs == 3

\* most top-level records in a file of the records() specification
MaxFileRecs == 2
\* longest record body, in bytes
MaxBody == 2
\* most bytes cut off the end of a file
MaxCut == 3

\* most Ref objects allocated in one behaviour of the heap specification
MaxRefs == 2

\* most instance dumps in a segment, and the longest instance data
MaxObjs == 2
MaxData == 10

\* name ids and class object ids that occur in the files and in the lookups
Ids == {1, 2}
\* class names that occur in ClassLoad records and in the lookups
ClassNames == {"a", "b"}

-----------------------------------------------------------------------------
(* The index builder: hprof/_binary.py, HprofFile.                         *)

GEN_LEVEL_NAMES == 1
GEN_LEVEL_CINFO == 2
GEN_LEVEL_DUMPS == 3

\* An empty dict.
EmptyDict == [k \in {} |-> 0]

\* d[k] = v on a dict.
DictPut(d, k, v) == [x \in (DOMAIN d) \cup {k} |-> IF x = k THEN v ELSE d[x]]

\* Keys of _class_info: Python ints (class ids) and strs (class names) live
\* in the same dict and never compare equal.
IdKey(n)   == [k |-> "id",   n |-> n, s |-> ""]
NameKey(s) == [k |-> "name", n |-> 0, s |-> s]
ClassKeys  == {IdKey(n) : n \in Ids} \cup {NameKey(s) : s \in ClassNames}

\* The records a file can hold: typed views as hprof.record.create makes them.
\* Utf8 carries .id, ClassLoad carries .class_id and .class_name.
RecordKinds ==
    {[type |-> "Utf8", id |-> n, class_name |-> ""] : n \in Ids}
    \cup {[type |-> "ClassLoad", id |-> n, class_name |-> s] :
             n \in Ids, s \in ClassNames}
    \cup {[type |-> t, id |-> 0, class_name |-> ""] :
             t \in {"HeapDumpSegment", "HeapDumpEnd", "Other"}}

Files == UNION {[1..n -> RecordKinds] : n \in 0..MaxRecs}

\* _dumps is None until a level-3 pass completes.
NoDumps == [isNone |-> TRUE, v |-> <<>>]
DumpsTuple(ds) == [isNone |-> FALSE, v |-> ds]

\* lines 81-88: a Utf8 record while names are being built.  r is the record,
\* i its position in the file (the identity of the record object).
AddName(s, r, i) ==
    IF r.id \in DOMAIN s.names
    THEN [s EXCEPT !.err = "BadFormat"]
    ELSE [s EXCEPT !.names = DictPut(s.names, r.id, i)]

\* An AddClassLoad that files the record under its class name only.
AddClassLoadNameOnly(s, r, i) ==
    IF NameKey(r.class_name) \in DOMAIN s.class_info
    THEN [s EXCEPT !.err = "BadFormat"]
    ELSE [s EXCEPT !.class_info =
             DictPut(s.class_info, NameKey(r.class_name), i)]

\* lines 89-98: a ClassLoad record while class infos are being built.
AddClassLoad(s, r, i) ==
    IF NameKey(r.class_name) \in DOMAIN s.class_info
    THEN [s EXCEPT !.err = "BadFormat"]
    ELSE IF IdKey(r.id) \in DOMAIN s.class_info
    THEN [s EXCEPT !.err = "BadFormat"]
    ELSE [s EXCEPT !.class_info =
             DictPut(DictPut(s.class_info, NameKey(r.class_name), i),
                     IdKey(r.id), i)]

\* lines 99-103: a HeapDumpSegment while dumps are being built.  A Dump is
\* the sequence of the segments added to it; curdump is the position of the
\* open Dump in dumps, 0 for None.
AddSegment(s, i) ==
    LET opened == IF s.curdump = 0
                  THEN [s EXCEPT !.dumps = Append(s.dumps, <<>>),
                                 !.curdump = Len(s.dumps) + 1]
                  ELSE s
    IN  [opened EXCEPT !.dumps[opened.curdump] =
                           Append(opened.dumps[opened.curdump], i)]

\* An EndDump that adds no empty Dump when none is open.
EndDumpNoEmpty(s) == [s EXCEPT !.curdump = 0]

\* lines 104-107: a HeapDumpEnd while dumps are being built.
EndDump(s) ==
    LET closed == IF s.curdump = 0
                  THEN [s EXCEPT !.dumps = Append(s.dumps, <<>>)]
                  ELSE s
    IN  [closed EXCEPT !.curdump = 0]

\* lines 81-107: the body of the loop for one record; built is _caches_built
\* on entry (it does not change during the loop), g is genlevel.
GenStep(s, r, i, built, g) ==
    IF built < GEN_LEVEL_NAMES /\ GEN_LEVEL_NAMES <= g /\ r.type = "Utf8"
    THEN AddName(s, r, i)
    ELSE IF built < GEN_LEVEL_CINFO /\ GEN_LEVEL_CINFO <= g /\ r.type = "ClassLoad"
    THEN AddClassLoad(s, r, i)
    ELSE IF built < GEN_LEVEL_DUMPS /\ GEN_LEVEL_DUMPS <= g /\ r.type = "HeapDumpSegment"
    THEN AddSegment(s, i)
    ELSE IF built < GEN_LEVEL_DUMPS /\ GEN_LEVEL_DUMPS <= g /\ r.type = "HeapDumpEnd"
    THEN EndDump(s)
    ELSE s

\* line 80: for r in self.records(), from record i on; a raise ends the loop.
RECURSIVE GenLoop(_, _, _, _, _)
GenLoop(s, recs, i, built, g) ==
    IF i > Len(recs) \/ s.err # ""
    THEN s
    ELSE GenLoop(GenStep(s, recs[i], i, built, g), recs, i + 1, built, g)

\* The pass of _gen_from_records once the early return is behind:
\* lines 70-110.  hf is [caches_built, names, class_info, dumps]; the result
\* adds ran (a pass over the records was made) and err.
GenPass(hf, recs, genlevel) ==
    LET built == hf.caches_built
        s0 == [names      |-> IF built < GEN_LEVEL_NAMES THEN EmptyDict ELSE hf.names,
               class_info |-> IF built < GEN_LEVEL_CINFO THEN EmptyDict ELSE hf.class_info,
               curdump    |-> 0,
               dumps      |-> <<>>,
               err        |-> ""]
        s == GenLoop(s0, recs, 1, built, genlevel)
    IN  IF s.err # ""
        THEN [caches_built |-> built, names |-> s.names,
              class_info |-> s.class_info, dumps |-> hf.dumps,
              ran |-> TRUE, err |-> s.err]
        ELSE [caches_built |-> genlevel, names |-> s.names,
              class_info |-> s.class_info,
              dumps |-> IF GEN_LEVEL_DUMPS <= genlevel
                        THEN DumpsTuple(s.dumps) ELSE hf.dumps,
              ran |-> TRUE, err |-> ""]

\* A _gen_from_records without the early return of lines 67-68.
GenFromRecordsAlways(hf, recs, genlevel) == GenPass(hf, recs, genlevel)

\* lines 63-110: HprofFile._gen_from_records.
GenFromRecords(hf, recs, genlevel) ==
    IF hf.caches_built >= genlevel
    THEN [caches_built |-> hf.caches_built, names |-> hf.names,
          class_info |-> hf.class_info, dumps |-> hf.dumps,
          ran |-> FALSE, err |-> ""]
    ELSE GenPass(hf, recs, genlevel)

\* The HprofFile fields the index builder works on.
Hf == [caches_built |-> caches_built, names |-> names,
       class_info |-> class_info, dumps |-> dumps]

\* lines 142-149: _cache_lookup on the cache `which` ("names" or
\* "class_info").  kind is "ok", "KeyError" or "BadFormat"; g is the level
\* requested of _gen_from_records, 0 when the first lookup hit.
CacheLookup(hf, recs, which, key, genlevel) ==
    LET cache == IF which = "names" THEN hf.names ELSE hf.class_info
    IN  IF key \in DOMAIN cache
        THEN [hf |-> hf, g |-> 0, ran |-> FALSE, kind |-> "ok", val |-> cache[key]]
        ELSE LET b == GenFromRecords(hf, recs, genlevel)
                 after == [caches_built |-> b.caches_built, names |-> b.names,
                           class_info |-> b.class_info, dumps |-> b.dumps]
                 cache2 == IF which = "names" THEN b.names ELSE b.class_info
             IN  IF b.err # ""
                 THEN [hf |-> after, g |-> genlevel, ran |-> b.ran,
                       kind |-> b.err, val |-> 0]
                 ELSE IF key \in DOMAIN cache2
                 THEN [hf |-> after, g |-> genlevel, ran |-> b.ran,
                       kind |-> "ok", val |-> cache2[key]]
                 ELSE [hf |-> after, g |-> genlevel, ran |-> b.ran,
                       kind |-> "KeyError", val |-> 0]

\* The state after a call, from the outcome c of the call.
Outcome(c, op, key, kind) ==
    /\ caches_built' = c.hf.caches_built
    /\ names' = c.hf.names
    /\ class_info' = c.hf.class_info
    /\ dumps' = c.hf.dumps
    /\ last' = [op |-> op, key |-> key, before |-> caches_built, g |-> c.g,
                ran |-> c.ran, kind |-> kind, val |-> c.val]

NoKey == [k |-> "none", n |-> 0, s |-> ""]

\* lines 151-156: HprofFile.name(nameid).
Name(nameid) ==
    LET c == CacheLookup(Hf, file, "names", nameid, GEN_LEVEL_NAMES)
    IN  /\ Outcome(c, "name", IdKey(nameid),
                   IF c.kind = "KeyError" THEN "RefError" ELSE c.kind)
        /\ UNCHANGED <<file, recordVars, heapVars, objectVars, closeVars, idVars>>

\* lines 158-166: HprofFile.get_class_info(class_id_or_name).
GetClassInfo(key) ==
    LET c == CacheLookup(Hf, file, "class_info", key, GEN_LEVEL_CINFO)
    IN  /\ Outcome(c, "get_class_info", key,
                   IF c.kind = "KeyError" THEN "ClassNotFound" ELSE c.kind)
        /\ UNCHANGED <<file, recordVars, heapVars, objectVars, closeVars, idVars>>

\* lines 124-130: HprofFile.dumps(), consumed to its end.
Dumps ==
    LET b == IF dumps.isNone
             THEN GenFromRecords(Hf, file, GEN_LEVEL_DUMPS)
             ELSE [caches_built |-> caches_built, names |-> names,
                   class_info |-> class_info, dumps |-> dumps,
                   ran |-> FALSE, err |-> ""]
        c == [hf |-> [caches_built |-> b.caches_built, names |-> b.names,
                      class_info |-> b.class_info, dumps |-> b.dumps],
              g |-> IF dumps.isNone THEN GEN_LEVEL_DUMPS ELSE 0,
              ran |-> b.ran, val |-> 0]
    IN  /\ Outcome(c, "dumps", NoKey, IF b.err # "" THEN b.err ELSE "ok")
        /\ UNCHANGED <<file, recordVars, heapVars, objectVars, closeVars, idVars>>

-----------------------------------------------------------------------------
(* Idle values of each group of variables.                                 *)

IdleIndex ==
    /\ file = <<>>
    /\ caches_built = 0
    /\ names = EmptyDict
    /\ class_info = EmptyDict
    /\ dumps = NoDumps
    /\ last = [op |-> "open", key |-> NoKey, before |-> 0, g |-> 0,
               ran |-> FALSE, kind |-> "ok", val |-> 0]

IdleRecords ==
    /\ data = <<>>
    /\ addr = 0
    /\ yielded = <<>>
    /\ rstate = "idle"

IdleHeap ==
    /\ schema = <<>>
    /\ cur = [kind |-> "none"]
    /\ nrefs = 0
    /\ res = [op |-> "none"]

IdleObject ==
    /\ idsize = 0
    /\ seg = <<>>
    /\ written = <<>>
    /\ saddr = 0
    /\ subs = <<>>

IdleClose ==
    /\ hdata = [isNone |-> TRUE, v |-> <<>>]
    /\ hfile = "None"
    /\ hdumps = NoDumps
    /\ rgen = [state |-> "none", addr |-> 0]
    /\ dgen = [state |-> "none", pos |-> 0]
    /\ cres = [op |-> "none"]

IdleId ==
    /\ widsize = 0
    /\ wid = <<>>
    /\ wbuf = <<>>
    /\ waddr = 0
    /\ rid = [done |-> FALSE, v |-> <<>>]

-----------------------------------------------------------------------------
(* Spec: one HprofFile over any file of at most MaxRecs records, and any   *)
(* sequence of name(), get_class_info() and dumps() calls on it.           *)

\* lines 52-55: the index fields after __init__.
Init ==
    /\ file \in Files
    /\ caches_built = 0
    /\ names = EmptyDict
    /\ class_info = EmptyDict
    /\ dumps = NoDumps
    /\ last = [op |-> "open", key |-> NoKey, before |-> 0, g |-> 0,
               ran |-> FALSE, kind |-> "ok", val |-> 0]
    /\ IdleRecords /\ IdleHeap /\ IdleObject /\ IdleClose /\ IdleId

Next ==
    \/ \E nameid \in Ids : Name(nameid)
    \/ \E key \in ClassKeys : GetClassInfo(key)
    \/ Dumps

Spec == Init /\ [][Next]_vars

-----------------------------------------------------------------------------
(* Properties of the index builder, checked under Spec.                    *)

IsType(i, t) == file[i].type = t
Utf8At(n) == {i \in 1..Len(file) : IsType(i, "Utf8") /\ file[i].id = n}
ClassLoadAt(key) ==
    {i \in 1..Len(file) :
        /\ IsType(i, "ClassLoad")
        /\ \/ key.k = "id" /\ file[i].id = key.n
           \/ key.k = "name" /\ file[i].class_name = key.s}
DupNameIds == {n \in Ids : Cardinality(Utf8At(n)) > 1}
HasDupName == DupNameIds # {}
HasDupClassLoad == \E key \in ClassKeys : Cardinality(ClassLoadAt(key)) > 1

\* C1: the build level stays in 0..3 and never decreases; a cache that has
\* reached its level is never changed again; a request for level g when the
\* level is already >= g makes no pass and changes nothing, and neither does
\* a lookup that hits.
C1_LevelMonotone ==
    /\ caches_built \in 0..3
    /\ [][/\ caches_built' \in 0..3
          /\ caches_built' >= caches_built
          /\ (caches_built >= GEN_LEVEL_NAMES => names' = names)
          /\ (caches_built >= GEN_LEVEL_CINFO => class_info' = class_info)
          /\ (caches_built >= GEN_LEVEL_DUMPS => dumps' = dumps)
          /\ (caches_built >= last'.g =>
                 /\ ~last'.ran
                 /\ UNCHANGED <<caches_built, names, class_info, dumps>>)
         ]_vars

\* A name() that misses on a fully built index: level 1 is requested at
\* level 3 and returns immediately.
C1_Witness ==
    /\ last.op = "name" /\ last.kind = "RefError"
    /\ last.before = 3 /\ last.g = GEN_LEVEL_NAMES /\ ~last.ran
    /\ caches_built = 3 /\ DOMAIN names # {}

\* C2 (as claimed): on a file with a duplicate name id the level stays 0 and
\* every name() call, for any id, raises BadFormat: nothing a failed pass
\* inserted is ever returned.
C2_FailedPassNotReused ==
    HasDupName =>
        /\ caches_built = 0
        /\ (last.op = "name" => last.kind = "BadFormat")

\* The dumps a file holds: segment i belongs to the group numbered by the
\* HeapDumpEnd records before it; every group closed by a HeapDumpEnd is a
\* dump (empty when it has no segment), the group after the last
\* HeapDumpEnd is a dump when it has a segment.
EndsBefore(i) == Cardinality({j \in 1..(i - 1) : IsType(j, "HeapDumpEnd")})
NumEnds == EndsBefore(Len(file) + 1)
SegmentsOfGroup(k) ==
    SelectSeq([i \in 1..Len(file) |-> i],
              LAMBDA i : IsType(i, "HeapDumpSegment") /\ EndsBefore(i) = k)
ExpectedDumps ==
    [k \in 1..NumEnds |-> SegmentsOfGroup(k - 1)]
    \o (IF SegmentsOfGroup(NumEnds) # <<>>
        THEN <<SegmentsOfGroup(NumEnds)>> ELSE <<>>)

\* C3: a completed level-3 build holds exactly the dumps of the file, in
\* file order, each with its segments in order; below level 3 _dumps is None.
C3_DumpGrouping ==
    /\ (caches_built = GEN_LEVEL_DUMPS <=> ~dumps.isNone)
    /\ (caches_built = GEN_LEVEL_DUMPS => dumps.v = ExpectedDumps)
    /\ (last.op = "dumps" /\ last.kind = "ok" => caches_built = GEN_LEVEL_DUMPS)

\* A HeapDumpEnd with no open dump, then two segments with no HeapDumpEnd.
C3_Witness ==
    /\ last.op = "dumps" /\ last.kind = "ok"
    /\ Len(file) = 3 /\ IsType(1, "HeapDumpEnd")
    /\ dumps.v = << <<>>, <<2, 3>> >>

\* C4 (as claimed): on a file with a duplicate name id the level is never
\* raised, every pass fails with BadFormat, and dumps() and name(id) of the
\* repeated id raise BadFormat; a pass that covers class loads fails with
\* BadFormat on a file with a duplicate class id or class name.
C4_DuplicatesAreBadFormat ==
    /\ HasDupName =>
          /\ caches_built = 0
          /\ (last.ran => last.kind = "BadFormat")
          /\ (last.op = "dumps" => last.kind = "BadFormat")
          /\ (last.op = "name" /\ last.key.n \in DupNameIds
                 => last.kind = "BadFormat")
    /\ HasDupClassLoad =>
          /\ caches_built < GEN_LEVEL_CINFO
          /\ (last.ran /\ last.g >= GEN_LEVEL_CINFO => last.kind = "BadFormat")

\* C5: on a file without duplicates, in any state the calls so far have
\* led to, name(id) returns the Utf8 record with that id, get_class_info
\* returns the ClassLoad with that class id or class name, and a key with
\* no record raises RefError, respectively ClassNotFound.
C5_LookupsFindRecords ==
    (~HasDupName /\ ~HasDupClassLoad) =>
        /\ last.op = "name" =>
              IF Utf8At(last.key.n) # {}
              THEN last.kind = "ok" /\ last.val \in Utf8At(last.key.n)
              ELSE last.kind = "RefError"
        /\ last.op = "get_class_info" =>
              IF ClassLoadAt(last.key) # {}
              THEN last.kind = "ok" /\ last.val \in ClassLoadAt(last.key)
              ELSE last.kind = "ClassNotFound"
        /\ \A n \in DOMAIN names : names[n] \in Utf8At(n)
        /\ \A key \in DOMAIN class_info : class_info[key] \in ClassLoadAt(key)

\* get_class_info by class id on an index that dumps() built, on a file that
\* also holds a name.
C5_Witness ==
    /\ ~HasDupName /\ ~HasDupClassLoad
    /\ last.op = "get_class_info" /\ last.key.k = "id" /\ last.kind = "ok"
    /\ last.before = GEN_LEVEL_DUMPS
    /\ DOMAIN names # {}


-----------------------------------------------------------------------------
(* Reading the bytes of the file: hprof/_binary.py, lines 168-243.         *)
(* Address a of the file is element a + 1 of the byte sequence.            *)

EofError == [err |-> "EofError", v |-> <<>>]

\* lines 168-177, 186: _read_bytes(start, nbytes) with a byte count.
ReadBytes(d, start, nbytes) ==
    IF start < 0
    THEN EofError
    ELSE IF start + nbytes > Len(d)
    THEN EofError
    ELSE [err |-> "", v |-> SubSeq(d, start + 1, start + nbytes)]

\* lines 231-238: read_byte(addr).
ReadByte(d, a) ==
    IF a < 0
    THEN [err |-> "EofError", v |-> 0]
    ELSE IF a >= Len(d)
    THEN [err |-> "EofError", v |-> 0]
    ELSE [err |-> "", v |-> d[a + 1]]

\* struct.unpack('>I', ...): the bytes as one big-endian unsigned number.
RECURSIVE BigEndian(_)
BigEndian(bs) ==
    IF bs = <<>> THEN 0
    ELSE 256 * BigEndian(SubSeq(bs, 1, Len(bs) - 1)) + bs[Len(bs)]

\* lines 240-243: read_uint(addr).
ReadUint(d, a) ==
    LET b == ReadBytes(d, a, 4)
    IN  IF b.err # "" THEN [err |-> b.err, v |-> 0]
        ELSE [err |-> "", v |-> BigEndian(b.v)]

\* lines 178-185: _read_bytes(start, None): the address of the first zero
\* byte at or after a, Len(d) when there is none.
RECURSIVE NulFrom(_, _)
NulFrom(d, a) ==
    IF a >= Len(d) THEN Len(d)
    ELSE IF d[a + 1] = 0 THEN a
    ELSE NulFrom(d, a + 1)

\* lines 42-51: _first_record_addr = 13 + len(version) + 1 + 12.
FirstRecordAddr(d) == 13 + (NulFrom(d, 13) - 13) + 1 + 12

\* int.to_bytes(n, 'big') (test/unit/util.py line 60): v in n bytes.
RECURSIVE ToBytes(_, _)
ToBytes(v, n) ==
    IF n = 0 THEN <<>>
    ELSE Append(ToBytes(v \div 256, n - 1), v % 256)

\* The header: "JAVA PROFILE 1.0.3", NUL, idsize 4, an 8-byte timestamp.
Header ==
    <<74, 65, 86, 65, 32, 80, 82, 79, 70, 73, 76, 69, 32,
      49, 46, 48, 46, 51, 0>>
    \o ToBytes(4, 4) \o ToBytes(0, 8)

\* A top-level record on disk: tag, 4-byte time delta, 4-byte body length,
\* body (here of bytes 7).  declared is the length written in the record.
RecordBytes(tag, declared, body) ==
    <<tag>> \o ToBytes(0, 4) \o ToBytes(declared, 4) \o [i \in 1..body |-> 7]

RECURSIVE Concat(_)
Concat(ss) == IF ss = <<>> THEN <<>> ELSE Head(ss) \o Concat(Tail(ss))

\* Record tags used in the files: Utf8 (0x01) and HeapDumpEnd (0x2c).
Tags == {1, 44}
RecordShapes == [tag : Tags, body : 0..MaxBody]

\* The files of SpecRecords: a header, up to MaxFileRecs well-formed
\* records, and up to MaxCut bytes cut off the end of the records.
FileBytes(rs, cut) ==
    LET all == Header \o Concat([i \in 1..Len(rs) |->
                   RecordBytes(rs[i].tag, rs[i].body, rs[i].body)])
    IN  SubSeq(all, 1, Len(all) - cut)

\* hprof.record.create(hf, addr): the record at addr, read through the
\* HprofFile readers: its tag, its body length at addr + 5 and its body.  A
\* record whose header or declared body extends past the end of the file is
\* OutOfBounds (EofError).  _hprof_len is the whole record, header included.
Create(d, a) ==
    LET tag == ReadByte(d, a)
        n == ReadUint(d, a + 5)
        body == ReadBytes(d, a + 9, n.v)
    IN  IF tag.err # "" \/ n.err # "" \/ body.err # ""
        THEN [err |-> "EofError", addr |-> a, len |-> 0, tag |-> 0]
        ELSE [err |-> "", addr |-> a, len |-> 9 + n.v, tag |-> tag.v]

\* A records() that takes an EofError of create for the end of the file.
RecordsStepSwallow(d, a) ==
    LET tag == ReadByte(d, a)
        r == Create(d, a)
    IN  IF tag.err # "" \/ r.err # ""
        THEN [rstate |-> "done", addr |-> a, out |-> <<>>]
        ELSE [rstate |-> "running", addr |-> a + r.len, out |-> <<r>>]

\* lines 115-122: one turn of the loop of records(), up to its yield.
RecordsStep(d, a) ==
    LET tag == ReadByte(d, a)
        r == Create(d, a)
    IN  IF tag.err # ""
        THEN [rstate |-> "done", addr |-> a, out |-> <<>>]
        ELSE IF r.err # ""
        THEN [rstate |-> r.err, addr |-> a, out |-> <<>>]
        ELSE [rstate |-> "running", addr |-> a + r.len, out |-> <<r>>]

\* The consumer asks the generator for the next record.
RecordsNext ==
    /\ rstate = "running"
    /\ LET n == RecordsStep(data, addr)
       IN  /\ rstate' = n.rstate
           /\ addr' = n.addr
           /\ yielded' = yielded \o n.out
    /\ UNCHANGED <<data, indexVars, heapVars, objectVars, closeVars, idVars>>

\* A file is opened and records() is called on it (line 114).
InitRecords ==
    /\ \E n \in 0..MaxFileRecs : \E rs \in [1..n -> RecordShapes] :
         \E cut \in 0..MaxCut :
            /\ n = 0 => cut = 0
            /\ data = FileBytes(rs, cut)
    /\ addr = FirstRecordAddr(data)
    /\ yielded = <<>>
    /\ rstate = "running"
    /\ IdleIndex /\ IdleHeap /\ IdleObject /\ IdleClose /\ IdleId

NextRecords == RecordsNext

SpecRecords == InitRecords /\ [][NextRecords]_vars

\* The record header at address a is in the file and declares a body that
\* extends past the end of the file.
DeclaredPastEof(a) ==
    /\ a + 9 <= Len(data)
    /\ a + 9 + BigEndian(SubSeq(data, a + 6, a + 9)) > Len(data)

-----------------------------------------------------------------------------
(* The heap object model: hprof/heap.py.                                   *)

\* The Java classes of the model, made by JavaClass(name, supercls, attrs):
\* java.lang.Object and java.lang.Class, A, B extends A, and the array
\* class A[] (a JavaArrayClass).  JavaObject is the Python root class.
JavaClasses == {"Object", "Class", "A", "B", "Arr"}

\* lines 134-140: the single base of a class; JavaObject when supercls is None.
Super(c) ==
    CASE c = "Object" -> "JavaObject"
      [] c = "B"      -> "A"
      [] OTHER        -> "Object"

\* lines 152-155: JavaClass.__str__, module and name.
StrOf(c) ==
    CASE c = "Object" -> "java.lang.Object"
      [] c = "Class"  -> "java.lang.Class"
      [] c = "Arr"    -> "A[]"
      [] OTHER        -> c

\* lines 233-236: array classes are made by JavaArrayClass.
IsArrayClass(c) == c = "Arr"

\* A small number for each class, used to tell stored values apart.
ClassNo(c) ==
    CASE c = "A" -> 1 [] c = "B" -> 2 [] c = "Object" -> 3
      [] c = "Class" -> 4 [] OTHER -> 5

\* Field names the classes may declare, and the names looked up.
FieldNames == {"x", "y"}
LookupNames == {"x", "y", "z"}

\* lines 143-146: _hprof_ifields (name -> index, here the sequence of names
\* in index order) and _hprof_sfields (name -> value) of one class.
ClassSchemas ==
    {[ifields |-> f, sfields |-> [n \in ns |-> 100]] :
        f \in {<<>>, <<"x">>, <<"x", "y">>, <<"y", "x">>},
        ns \in {{}, {"x"}, {"y"}}}
NoFields == [ifields |-> <<>>, sfields |-> [n \in {} |-> 0]]

\* The schemas of all classes: A and B vary (the static fields of A hold
\* 100, those of B 200), the others declare nothing.
Schemas ==
    {[c \in JavaClasses |->
         IF c = "A" THEN a
         ELSE IF c = "B"
         THEN [b EXCEPT !.sfields = [n \in DOMAIN b.sfields |-> 200]]
         ELSE NoFields] :
        a \in ClassSchemas, b \in ClassSchemas}

\* the classes from c up to, not including, JavaObject
RECURSIVE ChainOf(_)
ChainOf(c) == IF c = "JavaObject" THEN <<>> ELSE <<c>> \o ChainOf(Super(c))
ChainSet(c) == {ChainOf(c)[i] : i \in 1..Len(ChainOf(c))}

\* An instance of class c: per class of its chain, the slot
\* _hprof_ifieldvals of that class; the field of index ix of class t holds
\* ClassNo(t) + 10 * ix.
Instance(sch, id, c) ==
    [kind |-> "obj", id |-> id, cls |-> c,
     vals |-> [t \in ChainSet(c) |->
                  [j \in 1..Len(sch[t].ifields) |-> ClassNo(t) + 10 * (j - 1)]]]

\* The class object of class c (a JavaClass or JavaArrayClass).
ClassObject(c) == [kind |-> "class", cls |-> c]

\* The objects a behaviour can take in hand.
BaseValues(sch) ==
    {Instance(sch, 1, "A"), Instance(sch, 2, "B"), Instance(sch, 3, "Arr")}
    \cup {ClassObject(c) : c \in {"A", "B", "Arr"}}

\* What cast may be given as desired: None, a Java class, or the Python
\* classes JavaObject and JavaClass.
Types == {"None", "JavaObject", "JavaClass"} \cup JavaClasses

\* type(v)
TypeOf(v) ==
    CASE v.kind = "obj"   -> v.cls
      [] v.kind = "class" -> IF IsArrayClass(v.cls) THEN "JavaArrayClass"
                             ELSE "JavaClass"
      [] v.kind = "ref"   -> "Ref"

\* issubclass(t, T) for the types of the model.
RECURSIVE PySubclass(_, _)
PySubclass(t, T) ==
    IF t = T THEN TRUE
    ELSE IF t \in JavaClasses THEN PySubclass(Super(t), T)
    ELSE IF t = "JavaArrayClass" THEN T = "JavaClass"
    ELSE FALSE

\* type.__instancecheck__(cls, instance)
TypeInstanceCheck(cls, instance) == PySubclass(TypeOf(instance), cls)

\* lines 160-167: JavaClass.__instancecheck__(cls, instance).
JavaClassInstanceCheck(cls, instance) ==
    LET i == IF TypeOf(instance) = "Ref" THEN instance.target ELSE instance
    IN  IF TypeOf(i) = "JavaClass"
           /\ StrOf(cls) \in {"java.lang.Object", "java.lang.Class"}
        THEN TRUE
        ELSE TypeInstanceCheck(cls, i)

\* isinstance(x, T): the exact type passes at once, else the
\* __instancecheck__ of T's metaclass decides.
IsInstance(x, T) ==
    IF TypeOf(x) = T THEN TRUE
    ELSE IF T \in JavaClasses THEN JavaClassInstanceCheck(T, x)
    ELSE TypeInstanceCheck(T, x)

TypeError == [err |-> "TypeError", v |-> [kind |-> "none"]]
Returns(v) == [err |-> "", v |-> v]

\* A Ref.__new__ that does not unwrap a Ref target.
RefNewNoUnwrap(target, reftype, serial) ==
    IF reftype = "None" \/ TypeOf(target) = reftype
    THEN Returns(target)
    ELSE IF ~IsInstance(target, reftype)
    THEN TypeError
    ELSE IF IsInstance(target, "JavaClass")
    THEN Returns(target)
    ELSE Returns([kind |-> "ref", target |-> target, reftype |-> reftype,
                  serial |-> serial])

\* A Ref.__new__ that returns class objects before the isinstance check.
RefNewClassFirst(target, reftype, serial) ==
    LET t == IF TypeOf(target) = "Ref" THEN target.target ELSE target
    IN  IF reftype = "None" \/ TypeOf(t) = reftype
        THEN Returns(t)
        ELSE IF IsInstance(t, "JavaClass")
        THEN Returns(t)
        ELSE IF ~IsInstance(t, reftype)
        THEN TypeError
        ELSE Returns([kind |-> "ref", target |-> t, reftype |-> reftype,
                      serial |-> serial])

\* lines 11-31: Ref.__new__(cls, target, reftype); serial is the identity of
\* the Ref object if one is made.
RefNew(target, reftype, serial) ==
    LET t == IF TypeOf(target) = "Ref" THEN target.target ELSE target
    IN  IF reftype = "None" \/ TypeOf(t) = reftype
        THEN Returns(t)
        ELSE IF ~IsInstance(t, reftype)
        THEN TypeError
        ELSE IF IsInstance(t, "JavaClass")
        THEN Returns(t)
        ELSE Returns([kind |-> "ref", target |-> t, reftype |-> reftype,
                      serial |-> serial])

\* lines 54-55: cast(obj, desired).
CastTo(obj, desired, serial) == RefNew(obj, desired, serial)

\* a == b in Python: Ref.__eq__ (lines 49-51) compares the target; any other
\* object compares by identity and, when that fails, hands the comparison
\* to the reflected b.__eq__(a).
RECURSIVE PyEq(_, _)
PyEq(a, b) ==
    IF a.kind = "ref" THEN PyEq(a.target, b)
    ELSE IF a = b THEN TRUE
    ELSE IF b.kind = "ref" THEN PyEq(b.target, a)
    ELSE FALSE

AttributeError == [err |-> "AttributeError", n |-> 0]
Found(n) == [err |-> "", n |-> n]

\* 1-based position of name in the sequence of instance field names
IndexOf(f, name) == CHOOSE j \in 1..Len(f) : f[j] = name
Declares(f, name) == \E j \in 1..Len(f) : f[j] = name

\* lines 104-114: the loop of JavaObject.__getattr__ from class t on.
RECURSIVE WalkFields(_, _, _, _)
WalkFields(sch, self, name, t) ==
    IF t = "JavaObject"
    THEN AttributeError
    ELSE IF Declares(sch[t].ifields, name)
    THEN Found(self.vals[t][IndexOf(sch[t].ifields, name)])
    ELSE IF name \in DOMAIN sch[t].sfields
    THEN Found(sch[t].sfields[name])
    ELSE WalkFields(sch, self, name, Super(t))

\* lines 99-114: JavaObject.__getattr__(self, name, reftype=None).
ObjectGetAttr(sch, self, name, reftype) ==
    WalkFields(sch, self, name, IF reftype = "None" THEN TypeOf(self) ELSE reftype)

\* lines 169-175: JavaClass.__getattr__(self, name): static fields only.
RECURSIVE ClassGetAttr(_, _, _)
ClassGetAttr(sch, t, name) ==
    IF t = "JavaObject"
    THEN AttributeError
    ELSE IF name \in DOMAIN sch[t].sfields
    THEN Found(sch[t].sfields[name])
    ELSE ClassGetAttr(sch, Super(t), name)

\* A Ref.__getattribute__ that forgets the declared type.
RefGetAttributeDynamic(sch, ref, name) ==
    ObjectGetAttr(sch, ref.target, name, "None")

\* lines 33-36: Ref.__getattribute__(self, name).
RefGetAttribute(sch, ref, name) ==
    ObjectGetAttr(sch, ref.target, name, ref.reftype)

\* getattr(v, name) on whatever is in hand.
GetAttr(sch, v, name) ==
    CASE v.kind = "ref"   -> RefGetAttribute(sch, v, name)
      [] v.kind = "obj"   -> ObjectGetAttr(sch, v, name, "None")
      [] v.kind = "class" -> ClassGetAttr(sch, v.cls, name)

NoValue == [kind |-> "none"]

\* Take one of the objects or class objects of the heap in hand.
Pick ==
    /\ \E v \in BaseValues(schema) :
          /\ cur' = v
          /\ res' = [op |-> "pick", x |-> v, T |-> "None", name |-> "",
                     err |-> "", v |-> v, n |-> 0]
    /\ UNCHANGED <<schema, nrefs, indexVars, recordVars, objectVars, closeVars, idVars>>

\* cur = cast(cur, T); a TypeError leaves cur as it is.
Cast ==
    /\ cur.kind # "none"
    /\ \E T \in Types :
          LET r == CastTo(cur, T, nrefs + 1)
              made == r.err = "" /\ r.v.kind = "ref"
          IN  /\ made => nrefs < MaxRefs
              /\ nrefs' = IF made THEN nrefs + 1 ELSE nrefs
              /\ cur' = IF r.err = "" THEN r.v ELSE cur
              /\ res' = [op |-> "cast", x |-> cur, T |-> T, name |-> "",
                         err |-> r.err, v |-> r.v, n |-> 0]
    /\ UNCHANGED <<schema, indexVars, recordVars, objectVars, closeVars, idVars>>

\* getattr(cur, name)
Get ==
    /\ cur.kind # "none"
    /\ \E name \in LookupNames :
          LET r == GetAttr(schema, cur, name)
          IN  res' = [op |-> "get", x |-> cur, T |-> "None", name |-> name,
                      err |-> r.err, v |-> NoValue, n |-> r.n]
    /\ UNCHANGED <<schema, cur, nrefs, indexVars, recordVars, objectVars, closeVars, idVars>>

InitHeap ==
    /\ schema \in Schemas
    /\ cur = NoValue
    /\ nrefs = 0
    /\ res = [op |-> "none", x |-> NoValue, T |-> "None", name |-> "",
              err |-> "", v |-> NoValue, n |-> 0]
    /\ IdleIndex /\ IdleRecords /\ IdleObject /\ IdleClose /\ IdleId

NextHeap == Pick \/ Cast \/ Get

SpecHeap == InitHeap /\ [][NextHeap]_vars


-----------------------------------------------------------------------------
(* Properties of cast and of field lookup, checked under SpecHeap.         *)

Unwrapped(v) == IF v.kind = "ref" THEN v.target ELSE v

\* C7: for the value x in hand and every type T that cast accepts for it,
\* cast(cast(x, T), T) == cast(x, T); cast(x, type(x)) and cast(x, None)
\* return x itself when x is not a Ref; a Ref made by cast has a target that
\* is not a Ref (the target of the Ref it was cast from) and whose dynamic
\* type is not the declared type.
C7_CastAlgebra ==
    cur.kind # "none" =>
      /\ \A T \in Types :
            LET once == CastTo(cur, T, nrefs + 1)
            IN  once.err = "" =>
                  LET twice == CastTo(once.v, T, nrefs + 2)
                      again == CastTo(cur, T, nrefs + 3)
                  IN  /\ twice.err = ""
                      /\ PyEq(twice.v, again.v)
                      /\ once.v.kind = "ref" =>
                            /\ once.v.target.kind # "ref"
                            /\ once.v.target = Unwrapped(cur)
                            /\ TypeOf(once.v.target) # once.v.reftype
      /\ cur.kind # "ref" =>
            /\ CastTo(cur, TypeOf(cur), nrefs + 1) = Returns(cur)
            /\ CastTo(cur, "None", nrefs + 1) = Returns(cur)
      /\ cur.kind = "ref" =>
            /\ cur.target.kind # "ref"
            /\ TypeOf(cur.target) # cur.reftype
      /\ (res.op = "cast" /\ res.err = "" /\ res.v.kind = "ref") =>
            /\ res.v.target.kind # "ref"
            /\ res.v.target = Unwrapped(res.x)

\* cast(cast(x, S), T) with S # T: a Ref to x typed T, made from a Ref.
C7_Witness ==
    /\ res.op = "cast" /\ res.err = ""
    /\ res.x.kind = "ref" /\ res.v.kind = "ref"
    /\ res.x.reftype # res.T
    /\ res.v.target = res.x.target

\* T is a supertype of class c: c itself, a class up its chain, or the root.
Supertype(T, c) == T \in ChainSet(c) \cup {"JavaObject"}

IsRefTo(v, t, T) == v.kind = "ref" /\ v.target = t /\ v.reftype = T

PassesInstanceCheck(t, T) ==
    IF t.kind = "obj" THEN Supertype(T, t.cls)
    ELSE \/ T = "JavaClass"
         \/ ~IsArrayClass(t.cls) /\ T \in {"Object", "Class"}

ChainHits(t, name) ==
    {j \in 1..Len(ChainOf(t)) :
        \/ Declares(schema[ChainOf(t)[j]].ifields, name)
        \/ name \in DOMAIN schema[ChainOf(t)[j]].sfields}
FirstHit(t, name) ==
    ChainOf(t)[CHOOSE j \in ChainHits(t, name) :
                  \A k \in ChainHits(t, name) : j <= k]
ExpectedGet(x, name) ==
    LET start == IF x.kind = "ref" THEN x.reftype ELSE x.cls
        obj == Unwrapped(x)
    IN  IF ChainHits(start, name) = {}
        THEN AttributeError
        ELSE LET t == FirstHit(start, name)
             IN  IF Declares(schema[t].ifields, name)
                 THEN Found(obj.vals[t][IndexOf(schema[t].ifields, name)])
                 ELSE Found(schema[t].sfields[name])

\* C9: a field lookup on an object starts at its dynamic class, through a
\* Ref at the declared type, and returns the instance field, else the static
\* field, of the first class up the chain that declares the name, else
\* raises AttributeError.  With x declared by A and by B extends A (A.x = 1,
\* B.x = 2), an instance of B gives 2 and its cast to A gives 1; a name
\* declared only by B is not found through the cast to A.
C9_FieldLookup ==
    (res.op = "get" /\ res.x.kind # "class") =>
        /\ [err |-> res.err, n |-> res.n] = ExpectedGet(res.x, res.name)
        /\ (/\ Unwrapped(res.x) = Instance(schema, 2, "B")
            /\ res.name = "x"
            /\ Declares(schema["A"].ifields, "x") /\ schema["A"].ifields[1] = "x"
            /\ Declares(schema["B"].ifields, "x") /\ schema["B"].ifields[1] = "x")
           => /\ res.x.kind = "obj" => res.err = "" /\ res.n = 2
              /\ (res.x.kind = "ref" /\ res.x.reftype = "A")
                    => res.err = "" /\ res.n = 1
        /\ (/\ res.x.kind = "ref" /\ res.x.reftype = "A"
            /\ res.x.target.cls = "B"
            /\ ChainHits("A", res.name) = {})
           => res.err = "AttributeError"

\* x is declared by A and by B, and is read through cast(obj, A) of an
\* instance of B.
C9_Witness ==
    /\ res.op = "get" /\ res.name = "x" /\ res.err = "" /\ res.n = 1
    /\ res.x.kind = "ref" /\ res.x.reftype = "A"
    /\ res.x.target = Instance(schema, 2, "B")
    /\ Declares(schema["B"].ifields, "x")


-----------------------------------------------------------------------------
(* Instance dumps: hprof/heaprecord/objectrecord.py, read back from bytes  *)
(* written by the test Builder (test/unit/util.py).                        *)

\* test/unit/util.py line 16: the id sizes the tests run with.
IdSizes == {3, 4, 5}

\* a ^ b
RECURSIVE Xor(_, _)
Xor(a, b) ==
    IF a = 0 THEN b
    ELSE IF b = 0 THEN a
    ELSE 2 * Xor(a \div 2, b \div 2) + ((a + b) % 2)

\* val >> (8 * n)
RECURSIVE ShiftRightBytes(_, _)
ShiftRightBytes(val, n) ==
    IF n = 0 THEN val ELSE ShiftRightBytes(val \div 256, n - 1)

\* val & ((1 << 8 * n) - 1)
RECURSIVE LowBytes(_, _)
LowBytes(val, n) ==
    IF n = 0 THEN 0 ELSE (val % 256) + 256 * LowBytes(val \div 256, n - 1)

\* util.py lines 5-7: the loop of fold.
RECURSIVE FoldLoop(_, _, _)
FoldLoop(folded, val, bytes) ==
    IF val = 0 THEN folded
    ELSE FoldLoop(Xor(folded, val), ShiftRightBytes(val, bytes), bytes)

\* util.py lines 1-9: fold(val, bytes), for val >= 0.
Fold(val, bytes) == LowBytes(FoldLoop(0, val, bytes), bytes)

\* util.py lines 58-62: Builder.u(val, bytes), the bytes it appends.
BuilderU(val, bytes) == ToBytes(Fold(val, bytes), bytes)

\* util.py lines 68-69 and 74-75: Builder.u4 and Builder.id.
BuilderU4(val) == BuilderU(val, 4)
BuilderId(val, idsz) == BuilderU(val, idsz)

\* lines 270-276: read_id(addr).
ReadId(d, a, idsz) ==
    LET b == ReadBytes(d, a, idsz)
    IN  IF b.err # "" THEN [err |-> b.err, v |-> 0]
        ELSE [err |-> "", v |-> BigEndian(b.v)]

\* objectrecord.py lines 13-19: the fields of an ObjectRecord after its
\* 1-byte tag; each has a fixed size plus a number of ids (idoffset).
ObjectRecordFields ==
    <<[name |-> "ID",       fixed |-> 0, ids |-> 1],
      [name |-> "STRACE",   fixed |-> 4, ids |-> 0],
      [name |-> "CLSID",    fixed |-> 0, ids |-> 1],
      [name |-> "DATASIZE", fixed |-> 4, ids |-> 0],
      [name |-> "DATA",     fixed |-> 0, ids |-> 0]>>

\* offset.AutoOffsets(base, ...): the offset of a field is the base plus the
\* sizes of the fields before it.
RECURSIVE AutoOffsets(_, _, _, _)
AutoOffsets(base, fields, name, idsz) ==
    IF Head(fields).name = name THEN base
    ELSE AutoOffsets(base + Head(fields).fixed + Head(fields).ids * idsz,
                     Tail(fields), name, idsz)

\* objectrecord.py line 13: _off, with base 1.
ObjectOff(name, idsz) == AutoOffsets(1, ObjectRecordFields, name, idsz)

\* lines 21-23: ObjectRecord.id, for the record at address a.
ObjectId(d, a, idsz) == ReadId(d, a + ObjectOff("ID", idsz), idsz).v

\* lines 25-27: ObjectRecord.datalen.
ObjectDatalen(d, a, idsz) == ReadUint(d, a + ObjectOff("DATASIZE", idsz)).v

\* An ObjectRecord.__len__ that leaves the field after DATASIZE out.
ObjectLenFromDatasize(d, a, idsz) ==
    ObjectOff("DATASIZE", idsz) + ObjectDatalen(d, a, idsz)

\* lines 29-30: ObjectRecord.__len__.
ObjectLen(d, a, idsz) == ObjectOff("DATA", idsz) + ObjectDatalen(d, a, idsz)

\* test_objectrecord.py lines 21-26: an instance dump subrecord as the test
\* builds it: tag 33, id, stack trace serial, class id, data length, data.
InstanceDumpBytes(id, d, idsz) ==
    <<33>> \o BuilderId(id, idsz) \o BuilderU4(6025)
    \o BuilderId(74565, idsz) \o BuilderU4(d) \o [i \in 1..d |-> 33]

\* Object ids the test writes; the second does not fit three bytes.
ObjectIds == <<29505, 19088743, 4660>>

\* The segment built from instance dumps of data lengths ds, and where
\* the builder put each of them.
RECURSIVE SegmentOf(_, _, _)
SegmentOf(ds, k, idsz) ==
    IF k = 0 THEN [bytes |-> <<>>, written |-> <<>>]
    ELSE LET before == SegmentOf(ds, k - 1, idsz)
             id == ObjectIds[((k - 1) % Len(ObjectIds)) + 1]
         IN  [bytes |-> before.bytes \o InstanceDumpBytes(id, ds[k], idsz),
              written |-> Append(before.written,
                                 [addr |-> Len(before.bytes), id |-> id,
                                  d |-> ds[k]])]

\* The subrecord framer reads the next subrecord of the segment: heap
\* records follow each other, each at the address after the one before.
NextSubrecord ==
    /\ saddr < Len(seg)
    /\ ReadByte(seg, saddr).v = 33
    /\ subs' = Append(subs, [addr |-> saddr,
                             len |-> ObjectLen(seg, saddr, idsize),
                             id |-> ObjectId(seg, saddr, idsize),
                             d |-> ObjectDatalen(seg, saddr, idsize)])
    /\ saddr' = saddr + ObjectLen(seg, saddr, idsize)
    /\ UNCHANGED <<idsize, seg, written, indexVars, recordVars, heapVars, closeVars, idVars>>

InitObject ==
    /\ idsize \in IdSizes
    /\ \E n \in 1..MaxObjs : \E ds \in [1..n -> 0..MaxData] :
          /\ seg = SegmentOf(ds, n, idsize).bytes
          /\ written = SegmentOf(ds, n, idsize).written
    /\ saddr = 0
    /\ subs = <<>>
    /\ IdleIndex /\ IdleRecords /\ IdleHeap /\ IdleClose /\ IdleId

NextObject == NextSubrecord

SpecObject == InitObject /\ [][NextObject]_vars

\* C10: the length of an instance dump is 1 + idsize + 4 + idsize + 4 + d
\* for its data length d (13 + 2 * idsize for d = 4, 19 + 2 * idsize for
\* d = 10), and the subrecord after it starts at its address plus that
\* length; the framed records are the ones written, ids folded to idsize.
C10_InstanceDumpLength ==
    /\ idsize \in IdSizes \cup {0}
    /\ Len(subs) <= Len(written)
    /\ \A i \in 1..Len(subs) :
          /\ subs[i].addr = written[i].addr
          /\ subs[i].d = written[i].d
          /\ subs[i].id = Fold(written[i].id, idsize)
          /\ subs[i].len = 1 + idsize + 4 + idsize + 4 + written[i].d
          /\ written[i].d = 4 => subs[i].len = 13 + 2 * idsize
          /\ written[i].d = 10 => subs[i].len = 19 + 2 * idsize
          /\ i < Len(written) =>
                written[i + 1].addr = subs[i].addr + subs[i].len
          /\ i = Len(written) => subs[i].addr + subs[i].len = Len(seg)
          /\ i = Len(subs) => saddr = subs[i].addr + subs[i].len

\* The two objects of the test, idsize 5: data lengths 4 and 10, the second
\* at 13 + 2 * 5 after the first.
C10_Witness ==
    /\ idsize = 5 /\ Len(subs) = 2
    /\ subs[1].d = 4 /\ subs[2].d = 10
    /\ subs[1].len = 23 /\ subs[2].addr = 23 /\ subs[2].len = 29

-----------------------------------------------------------------------------
(* close() and the calls that follow it: hprof/_binary.py, lines 112-140,  *)
(* 168-186, 231-238, 270-276.                                              *)

\* most top-level records in a file of the close() specification
MaxCloseRecs == 2

\* HprofFile._data: None after close(), the bytes of the file before.
NoData == [isNone |-> TRUE, v |-> <<>>]
DataOf(bs) == [isNone |-> FALSE, v |-> bs]

\* What Python raises when None is subscripted or given to len().
NoneTypeError == "TypeError"

\* lines 231-238: read_byte(addr) on _data hd.  The address test comes
\* first; None[addr] raises TypeError, which except IndexError lets through.
HfReadByte(hd, a) ==
    IF a < 0
    THEN [err |-> "EofError", v |-> 0]
    ELSE IF hd.isNone
    THEN [err |-> NoneTypeError, v |-> 0]
    ELSE ReadByte(hd.v, a)

\* lines 168-177, 186: _read_bytes(start, nbytes) on _data hd.  The address
\* test comes first; len(None) raises TypeError.
HfReadBytes(hd, start, nbytes) ==
    IF start < 0
    THEN EofError
    ELSE IF hd.isNone
    THEN [err |-> NoneTypeError, v |-> <<>>]
    ELSE ReadBytes(hd.v, start, nbytes)

\* lines 270-276: read_id(addr) on _data hd.
HfReadId(hd, a, idsz) ==
    LET b == HfReadBytes(hd, a, idsz)
    IN  IF b.err # "" THEN [err |-> b.err, v |-> 0]
        ELSE [err |-> "", v |-> BigEndian(b.v)]

\* lines 115-122: one turn of the loop of records() on _data hd.  Only an
\* EofError of the tag read ends the loop; any other exception leaves the
\* generator.
HfRecordsStep(hd, a) ==
    LET tag == HfReadByte(hd, a)
    IN  IF tag.err = "EofError"
        THEN [rstate |-> "done", addr |-> a, out |-> <<>>]
        ELSE IF tag.err # ""
        THEN [rstate |-> tag.err, addr |-> a, out |-> <<>>]
        ELSE RecordsStep(hd.v, a)

\* The record type hprof.record.create gives a tag: HeapDumpSegment is 0x1c,
\* HeapDumpEnd is 0x2c.
TypeOfTag(tag) ==
    IF tag = 28 THEN "HeapDumpSegment"
    ELSE IF tag = 44 THEN "HeapDumpEnd"
    ELSE "Other"

\* line 80: for r in self.records(), consumed from address a on: the records
\* so far and the exception that ended the loop, "" for none.
RECURSIVE RecordsFrom(_, _, _)
RecordsFrom(hd, a, acc) ==
    LET n == HfRecordsStep(hd, a)
    IN  IF n.rstate = "done" THEN [err |-> "", recs |-> acc]
        ELSE IF n.rstate # "running" THEN [err |-> n.rstate, recs |-> acc]
        ELSE RecordsFrom(hd, n.addr,
                 Append(acc, [type |-> TypeOfTag(n.out[1].tag),
                              id |-> 0, class_name |-> ""]))

\* lines 128-129: the first turn of dumps() with _dumps None, on a file no
\* lookup was made on (_caches_built is 0): _gen_from_records(3).  An
\* exception of records() leaves _dumps None.
HfGenDumps(hd, a) ==
    LET rs == RecordsFrom(hd, a, <<>>)
        b == GenFromRecords([caches_built |-> 0, names |-> EmptyDict,
                             class_info |-> EmptyDict, dumps |-> NoDumps],
                            rs.recs, GEN_LEVEL_DUMPS)
    IN  IF rs.err # "" THEN [err |-> rs.err, dumps |-> NoDumps]
        ELSE IF b.err # "" THEN [err |-> b.err, dumps |-> NoDumps]
        ELSE [err |-> "", dumps |-> b.dumps]

\* The files of SpecClose: a header and up to MaxCloseRecs records with an
\* empty body, each a HeapDumpSegment or a HeapDumpEnd.
CloseFiles ==
    {Header \o Concat([i \in 1..Len(tags) |-> RecordBytes(tags[i], 0, 0)]) :
        tags \in UNION {[1..n -> {28, 44}] : n \in 0..MaxCloseRecs}}

\* Addresses and byte counts the readers are called with.
ReadAddrs == {-1, 0, 31, 49}
ReadCounts == {1, 9}

\* The call op was made; closed tells whether _data was None when it was
\* made, early whether the generator it steps was made before close().
Called(op, early, kind, v) ==
    cres' = [op |-> op, closed |-> hdata.isNone, early |-> early,
             kind |-> kind, v |-> v]

\* lines 132-140: close().
CallClose ==
    /\ hdata' = NoData
    /\ hfile' = "None"
    /\ Called("close", FALSE, "ok", 0)
    /\ UNCHANGED <<hdumps, rgen, dgen>>
    /\ UNCHANGED <<indexVars, recordVars, heapVars, objectVars, idVars>>

\* lines 231-238: read_byte(a).
CallReadByte(a) ==
    /\ LET r == HfReadByte(hdata, a)
       IN  Called("read_byte", FALSE, IF r.err = "" THEN "ok" ELSE r.err, r.v)
    /\ UNCHANGED <<hdata, hfile, hdumps, rgen, dgen>>
    /\ UNCHANGED <<indexVars, recordVars, heapVars, objectVars, idVars>>

\* lines 188-190: read_bytes(a, n).
CallReadBytes(a, n) ==
    /\ LET r == HfReadBytes(hdata, a, n)
       IN  Called("read_bytes", FALSE, IF r.err = "" THEN "ok" ELSE r.err, r.v)
    /\ UNCHANGED <<hdata, hfile, hdumps, rgen, dgen>>
    /\ UNCHANGED <<indexVars, recordVars, heapVars, objectVars, idVars>>

\* lines 270-276: read_id(a), with the idsize 4 of the header.
CallReadId(a) ==
    /\ LET r == HfReadId(hdata, a, 4)
       IN  Called("read_id", FALSE, IF r.err = "" THEN "ok" ELSE r.err, r.v)
    /\ UNCHANGED <<hdata, hfile, hdumps, rgen, dgen>>
    /\ UNCHANGED <<indexVars, recordVars, heapVars, objectVars, idVars>>

\* line 112: records() is called; nothing of its body runs before the first
\* next().  _first_record_addr was set by __init__ (line 51).
CallRecords ==
    /\ rgen.state = "none"
    /\ rgen' = [state |-> "suspended", addr |-> 31, early |-> ~hdata.isNone]
    /\ Called("records", FALSE, "ok", 0)
    /\ UNCHANGED <<hdata, hfile, hdumps, dgen>>
    /\ UNCHANGED <<indexVars, recordVars, heapVars, objectVars, idVars>>

\* next() on the records() generator: lines 115-122 up to the yield.  A
\* generator that returned or raised is finished, and next() on a finished
\* generator raises StopIteration.
NextOfRecords ==
    /\ rgen.state # "none"
    /\ LET n == HfRecordsStep(hdata, rgen.addr)
       IN  IF rgen.state = "finished"
           THEN /\ rgen' = rgen
                /\ Called("records.next", rgen.early, "StopIteration", 0)
           ELSE IF n.rstate = "running"
           THEN /\ rgen' = [rgen EXCEPT !.addr = n.addr]
                /\ Called("records.next", rgen.early, "ok", n.out[1].addr)
           ELSE /\ rgen' = [rgen EXCEPT !.state = "finished"]
                /\ Called("records.next", rgen.early,
                          IF n.rstate = "done" THEN "StopIteration"
                          ELSE n.rstate, 0)
    /\ UNCHANGED <<hdata, hfile, hdumps, dgen>>
    /\ UNCHANGED <<indexVars, recordVars, heapVars, objectVars, idVars>>

\* line 124: dumps() is called; nothing of its body runs before the first
\* next().
CallDumps ==
    /\ dgen.state = "none"
    /\ dgen' = [state |-> "created", pos |-> 0, early |-> ~hdata.isNone]
    /\ Called("dumps", FALSE, "ok", 0)
    /\ UNCHANGED <<hdata, hfile, hdumps, rgen>>
    /\ UNCHANGED <<indexVars, recordVars, heapVars, objectVars, idVars>>

\* next() on the dumps() generator: lines 128-130.  The first next() builds
\* _dumps when it is None; every next() then takes the next element of the
\* tuple, without a read of the file.
NextOfDumps ==
    /\ dgen.state # "none"
    /\ LET b == IF dgen.state = "created" /\ hdumps.isNone
                THEN HfGenDumps(hdata, 31)
                ELSE [err |-> "", dumps |-> hdumps]
       IN  IF dgen.state = "finished"
           THEN /\ dgen' = dgen /\ hdumps' = hdumps
                /\ Called("dumps.next", dgen.early, "StopIteration", 0)
           ELSE IF b.err # ""
           THEN /\ dgen' = [dgen EXCEPT !.state = "finished"]
                /\ hdumps' = hdumps
                /\ Called("dumps.next", dgen.early, b.err, 0)
           ELSE IF dgen.pos < Len(b.dumps.v)
           THEN /\ dgen' = [dgen EXCEPT !.state = "yielding",
                                        !.pos = dgen.pos + 1]
                /\ hdumps' = b.dumps
                /\ Called("dumps.next", dgen.early, "ok", dgen.pos + 1)
           ELSE /\ dgen' = [dgen EXCEPT !.state = "finished"]
                /\ hdumps' = b.dumps
                /\ Called("dumps.next", dgen.early, "StopIteration", 0)
    /\ UNCHANGED <<hdata, hfile, rgen>>
    /\ UNCHANGED <<indexVars, recordVars, heapVars, objectVars, idVars>>

\* lines 28-55: an HprofFile over bytes (_f is None) or over a path (_f is
\* the open file), no call made yet.
InitClose ==
    /\ \E bs \in CloseFiles : hdata = DataOf(bs)
    /\ hfile \in {"None", "file"}
    /\ hdumps = NoDumps
    /\ rgen = [state |-> "none", addr |-> 0, early |-> FALSE]
    /\ dgen = [state |-> "none", pos |-> 0, early |-> FALSE]
    /\ cres = [op |-> "open", closed |-> FALSE, early |-> FALSE,
               kind |-> "ok", v |-> 0]
    /\ IdleIndex /\ IdleRecords /\ IdleHeap /\ IdleObject /\ IdleId

NextClose ==
    \/ CallClose
    \/ \E a \in ReadAddrs : CallReadByte(a)
    \/ \E a \in ReadAddrs : \E n \in ReadCounts : CallReadBytes(a, n)
    \/ \E a \in ReadAddrs : CallReadId(a)
    \/ CallRecords
    \/ NextOfRecords
    \/ CallDumps
    \/ NextOfDumps

SpecClose == InitClose /\ [][NextClose]_vars

\* The calls that read the file or step a generator made before close().
ReadsAfterClose ==
    /\ cres.op # "none"
    /\ cres.closed
    /\ \/ cres.op \in {"read_byte", "read_bytes", "read_id"}
       \/ cres.op \in {"records.next", "dumps.next"} /\ cres.early

\* C11 (as claimed): once close() was called, every read through the file
\* and every further step of a records() or dumps() generator made before
\* the close raises ClosedSource, never a clean end of iteration, a stale
\* value or another error; a second close() changes nothing.
C11_ClosedSourceAfterClose ==
    /\ [](ReadsAfterClose => cres.kind = "ClosedSource")
    /\ [][(hdata.isNone /\ cres'.op = "close" /\ cres' # cres)
             => UNCHANGED <<hdata, hfile, hdumps, rgen, dgen>>]_vars

-----------------------------------------------------------------------------
(* Ids written by the test Builder and read back by read_id:               *)
(* test/unit/util.py, lines 1-9 and 54-75; hprof/_binary.py, lines 270-276.*)
(* A Python int has no width.  A non-negative int is the sequence of its   *)
(* base-256 digits, lowest first, without leading zero digits: 0 is <<>>.  *)

\* most base-256 digits of an id given to the Builder
MaxDigits == 7

\* The digit of weight 256^(i - 1) of val.
DigitAt(val, i) == IF i <= Len(val) THEN val[i] ELSE 0

\* An int from its digits: zero digits at the top carry no value.
RECURSIVE WideNorm(_)
WideNorm(ds) ==
    IF ds = <<>> THEN <<>>
    ELSE IF ds[Len(ds)] = 0 THEN WideNorm(SubSeq(ds, 1, Len(ds) - 1))
    ELSE ds

\* a ^ b on ints of any size.
WideXor(a, b) ==
    LET n == IF Len(a) >= Len(b) THEN Len(a) ELSE Len(b)
    IN  WideNorm([i \in 1..n |-> Xor(DigitAt(a, i), DigitAt(b, i))])

\* val >> (8 * n) on ints of any size.
WideShiftRightBytes(val, n) ==
    IF n >= Len(val) THEN <<>> ELSE SubSeq(val, n + 1, Len(val))

\* val & ((1 << 8 * n) - 1) on ints of any size.
WideLowBytes(val, n) ==
    WideNorm(IF n >= Len(val) THEN val ELSE SubSeq(val, 1, n))

\* util.py lines 5-7: the loop of fold.
RECURSIVE WideFoldLoop(_, _, _)
WideFoldLoop(folded, val, bytes) ==
    IF val = <<>> THEN folded
    ELSE WideFoldLoop(WideXor(folded, val),
                      WideShiftRightBytes(val, bytes), bytes)

\* util.py lines 1-9: fold(val, bytes), for val >= 0.
WideFold(val, bytes) == WideLowBytes(WideFoldLoop(<<>>, val, bytes), bytes)

\* util.py line 60: folded.to_bytes(bytes, 'big'): n bytes, highest first;
\* OverflowError when the int does not fit.
WideToBytes(v, n) ==
    IF Len(v) > n
    THEN [err |-> "OverflowError", v |-> <<>>]
    ELSE [err |-> "", v |-> [i \in 1..n |-> DigitAt(v, n + 1 - i)]]

\* util.py lines 58-62 and 74-75: Builder.u(val, bytes) and Builder.id(val),
\* the bytes they append.
WideBuilderU(val, bytes) == WideToBytes(WideFold(val, bytes), bytes)
WideBuilderId(val, idsz) == WideBuilderU(val, idsz)

\* A loop of read_id that takes the first byte for the lowest.
FromBytesLittleEndian(i, bs) == WideNorm(bs)

\* lines 273-275: i = 0; for b in bytes: i = (i << 8) + b.
RECURSIVE FromBytes(_, _)
FromBytes(i, bs) ==
    IF bs = <<>> THEN i
    ELSE FromBytes(WideNorm(<<Head(bs)>> \o i), Tail(bs))

\* lines 270-276: read_id(addr) with an int of any size for result.
WideReadId(d, a, idsz) ==
    LET b == ReadBytes(d, a, idsz)
    IN  IF b.err # "" THEN [err |-> b.err, v |-> <<>>]
        ELSE [err |-> "", v |-> FromBytes(<<>>, b.v)]

\* The ids given to the Builder: every int of at most MaxDigits digits
\* drawn from IdDigits.
IdDigits == {0, 1, 255}
WideIds ==
    {WideNorm(ds) : ds \in UNION {[1..n -> IdDigits] : n \in 0..MaxDigits}}

\* Bytes written to the Builder before the id: none, or a u4.
Prefixes == {<<>>, BuilderU4(7)}

\* util.py lines 74-75: Builder.id(wid), then a byte after it.
WriteId ==
    /\ rid.done = FALSE
    /\ waddr = Len(wbuf)
    /\ wbuf' = wbuf \o WideBuilderId(wid, widsize).v \o <<255>>
    /\ UNCHANGED <<widsize, wid, waddr, rid>>
    /\ UNCHANGED <<indexVars, recordVars, heapVars, objectVars, closeVars>>

\* lines 270-276: read_id(waddr) on the bytes of the Builder.
ReadIdBack ==
    /\ rid.done = FALSE
    /\ waddr < Len(wbuf)
    /\ rid' = [done |-> TRUE, v |-> WideReadId(wbuf, waddr, widsize).v]
    /\ UNCHANGED <<widsize, wid, wbuf, waddr>>
    /\ UNCHANGED <<indexVars, recordVars, heapVars, objectVars, closeVars>>

\* A Builder of some idsize with its first bytes written, and an id to
\* write.
InitId ==
    /\ widsize \in IdSizes
    /\ wid \in WideIds
    /\ wbuf \in Prefixes
    /\ waddr = Len(wbuf)
    /\ rid = [done |-> FALSE, v |-> <<>>]
    /\ IdleIndex /\ IdleRecords /\ IdleHeap /\ IdleObject /\ IdleClose

NextId ==
    \/ WriteId
    \/ ReadIdBack

SpecId == InitId /\ [][NextId]_vars

\* The XOR of the digits j, j + n, j + 2n, ... of val.
RECURSIVE XorOfChunks(_, _, _)
XorOfChunks(val, j, n) ==
    IF j > Len(val) THEN 0
    ELSE Xor(val[j], XorOfChunks(val, j + n, n))

\* The value of an int below 2^31, as a number.
RECURSIVE ValueOf(_)
ValueOf(val) ==
    IF val = <<>> THEN 0 ELSE val[1] + 256 * ValueOf(Tail(val))
Small(val) == Len(val) <= 3 \/ (Len(val) = 4 /\ val[4] < 128)

\* C12: for idsize 3, 4 and 5 and every id v >= 0, read_id on the bytes
\* Builder.id(v) wrote returns fold(v, idsize): the XOR of the successive
\* idsize-byte chunks of v; it is in [0, 2^(8 * idsize)), it is v when
\* v < 2^(8 * idsize), and it is the idsize bytes at the address taken
\* big-endian and zero-extended, the byte after them left out.
C12_IdRoundTrip ==
    rid.done =>
       /\ rid.v = WideFold(wid, widsize)
       /\ rid.v = WideNorm([j \in 1..widsize |-> XorOfChunks(wid, j, widsize)])
       /\ Len(rid.v) <= widsize
       /\ \A j \in 1..Len(rid.v) : rid.v[j] \in 0..255
       /\ Len(wid) <= widsize => rid.v = wid
       /\ Len(wbuf) = waddr + widsize + 1
       /\ \A j \in 1..widsize :
             wbuf[waddr + j] = DigitAt(rid.v, widsize + 1 - j)
       /\ Small(wid) =>
             /\ ValueOf(rid.v) = Fold(ValueOf(wid), widsize)
             /\ ValueOf(rid.v) >= 0
       /\ widsize = 3 =>
             /\ ReadId(wbuf, waddr, 3).v = ValueOf(rid.v)
             /\ ReadId(wbuf, waddr, 3).v \in 0..16777215

\* An id of more than two chunks of idsize 3, its top byte 0xff, written
\* after a u4 and read back: the result differs from the id.
C12_Witness ==
    /\ rid.done
    /\ widsize = 3 /\ Len(wid) = 7 /\ waddr = 4
    /\ wid[1] = 255 /\ wid[4] = 0 /\ wid[7] = 1 /\ wid[3] = 255
    /\ rid.v # wid
    /\ Len(rid.v) = 3


=============================================================================
